---------------------------- MODULE Spec2Model ----------------------------
(***************************************************************************)
(* A model of scripts/validate_registry.py: the registry validator's main  *)
(* loop, the package validator and the release validator, one step per     *)
(* check, in the order the script performs them.                           *)
(*                                                                         *)
(* A Python str is a sequence of one-character strings; a parsed JSON      *)
(* value is a record tagged by its Python type.                            *)
(***************************************************************************)
EXTENDS Integers, Sequences, FiniteSets, TLC

(***************************************************************************)
(* Characters and strings                                                  *)
(***************************************************************************)

\* The characters of the model's file names, in code point order.
CharOrder ==
    << "\n", ".", "A", "a", "b", "c", "d", "j", "n", "o", "p", "q", "s", "x", "y" >>

Ord(c) == CHOOSE i \in 1..Len(CharOrder) : CharOrder[i] = c

Digit09 == {"0", "1", "2", "3", "4", "5", "6", "7", "8", "9"}
LowerAZ == {"a", "b", "c", "d", "e", "f", "g", "h", "i", "j", "k", "l", "m",
            "n", "o", "p", "q", "r", "s", "t", "u", "v", "w", "x", "y", "z"}
UpperAZ == {"A", "B", "C", "D", "E", "F", "G", "H", "I", "J", "K", "L", "M",
            "N", "O", "P", "Q", "R", "S", "T", "U", "V", "W", "X", "Y", "Z"}
\* \d of a str pattern: every Unicode decimal digit. "U+0663" stands for the
\* one character ARABIC-INDIC DIGIT THREE.
UnicodeDigit == Digit09 \cup {"U+0663"}
HexChar == Digit09 \cup {"a", "b", "c", "d", "e", "f"}
               \cup {"A", "B", "C", "D", "E", "F"}
NameFirst == LowerAZ \cup Digit09
NameRest == LowerAZ \cup Digit09 \cup {".", "_", "-"}
PreChar == LowerAZ \cup UpperAZ \cup Digit09 \cup {"."}

Repeat(c, n) == [i \in 1..n |-> c]
Range(seq) == {seq[i] : i \in 1..Len(seq)}

AllIn(s, lo, hi, class) == \A i \in lo..hi : s[i] \in class

\* The string without one trailing newline: where "$" may match.
EndsWithNewline(s) == Len(s) > 0 /\ s[Len(s)] = "\n"
Chomp(s) == IF EndsWithNewline(s) THEN SubSeq(s, 1, Len(s) - 1) ELSE s

\* pattern.match(s) for "^body$" where body cannot consume a newline:
\* body matches all of s, or all of s but its final newline.
DollarMatch(s, Full(_)) == Full(s) \/ (EndsWithNewline(s) /\ Full(Chomp(s)))

StartsWith(s, p) == Len(s) >= Len(p) /\ SubSeq(s, 1, Len(p)) = p
EndsWith(s, p) ==
    Len(s) >= Len(p) /\ SubSeq(s, Len(s) - Len(p) + 1, Len(s)) = p


(***************************************************************************)
(* Format validators (module constants, lines 14-19)                       *)
(***************************************************************************)

DateYearLen == 4
DateFieldLen == 2
Sha256Len == 64
CommitLen == 40
NameRestMin == 1
NameRestMax == 62

\* ^\d{4}-\d{2}-\d{2}$
DateFull(s) ==
    /\ Len(s) = DateYearLen + 2 * DateFieldLen + 2
    /\ AllIn(s, 1, 4, UnicodeDigit)
    /\ s[5] = "-"
    /\ AllIn(s, 6, 7, UnicodeDigit)
    /\ s[8] = "-"
    /\ AllIn(s, 9, 10, UnicodeDigit)

DATE_RE(s) == DollarMatch(s, DateFull)

\* ^[a-fA-F0-9]{64}$
Sha256Full(s) == Len(s) = Sha256Len /\ AllIn(s, 1, Len(s), HexChar)

SHA256_RE(s) == DollarMatch(s, Sha256Full)

\* ^[a-fA-F0-9]{40}$
CommitFull(s) == Len(s) = CommitLen /\ AllIn(s, 1, Len(s), HexChar)

COMMIT_RE(s) == DollarMatch(s, CommitFull)

\* ^[a-z0-9][a-z0-9._-]{1,62}$
NameFull(s) ==
    /\ Len(s) >= 1 + NameRestMin
    /\ Len(s) <= 1 + NameRestMax
    /\ s[1] \in NameFirst
    /\ AllIn(s, 2, Len(s), NameRest)

NAME_RE(s) == DollarMatch(s, NameFull)

\* [0-9]+(-[a-zA-Z0-9.]+)? matching all of t
PatchAndPre(t) ==
    \E k \in 1..Len(t) :
        /\ AllIn(t, 1, k, Digit09)
        /\ \/ k = Len(t)
           \/ /\ k + 2 <= Len(t)
              /\ t[k + 1] = "-"
              /\ AllIn(t, k + 2, Len(t), PreChar)

\* ^[0-9]+\.[0-9]+\.[0-9]+(-[a-zA-Z0-9.]+)?$
VersionFull(s) ==
    \E i, j \in 1..Len(s) :
        /\ 1 < i
        /\ i + 1 < j
        /\ s[i] = "."
        /\ s[j] = "."
        /\ AllIn(s, 1, i - 1, Digit09)
        /\ AllIn(s, i + 1, j - 1, Digit09)
        /\ PatchAndPre(SubSeq(s, j + 1, Len(s)))

VERSION_RE(s) == DollarMatch(s, VersionFull)

HttpsGithubCom ==
    << "h", "t", "t", "p", "s", ":", "/", "/",
       "g", "i", "t", "h", "u", "b", ".", "c", "o", "m", "/" >>

\* The first index of c in s, 0 when there is none.
Find(s, c) ==
    IF \E i \in 1..Len(s) : s[i] = c
    THEN CHOOSE i \in 1..Len(s) : s[i] = c /\ \A k \in 1..(i - 1) : s[k] # c
    ELSE 0

NoMatch == [matched |-> FALSE, group1 |-> << >>, group2 |-> << >>]

\* ^https://github\.com/([^/]+)/([^/]+)/?$ : both groups are greedy and take
\* any character but "/", a newline included; "$" is the end of the string
\* or the place before its final newline.
GITHUB_REPO_RE(s) ==
    IF ~StartsWith(s, HttpsGithubCom) THEN NoMatch
    ELSE LET rest == SubSeq(s, Len(HttpsGithubCom) + 1, Len(s))
             a == Find(rest, "/")
         IN  IF a <= 1 THEN NoMatch
             ELSE LET after == SubSeq(rest, a + 1, Len(rest))
                      b == Find(after, "/")
                      g2 == IF b = 0 THEN after ELSE SubSeq(after, 1, b - 1)
                      tail == IF b = 0 THEN << >>
                              ELSE SubSeq(after, b, Len(after))
                  IN  IF Len(g2) > 0 /\ tail \in {<< >>, <<"/">>, <<"/", "\n">>}
                      THEN [matched |-> TRUE,
                            group1 |-> SubSeq(rest, 1, a - 1),
                            group2 |-> g2]
                      ELSE NoMatch

DotGit == << ".", "g", "i", "t" >>

\* lines 131-132
StripDotGit(repo) ==
    IF EndsWith(repo, DotGit) THEN SubSeq(repo, 1, Len(repo) - Len(DotGit))
    ELSE repo

(***************************************************************************)
(* Parsed JSON values, as json.loads builds them                           *)
(***************************************************************************)

JNull == [t |-> "null"]
JBool(b) == [t |-> "bool", v |-> b]
JInt(n) == [t |-> "int", v |-> n]
\* a float num/den
JFloat(num, den) == [t |-> "float", v |-> << num, den >>]
JStr(s) == [t |-> "str", v |-> s]
JList(l) == [t |-> "list", v |-> l]
\* a dict: a function from its keys to its values
JObj(f) == [t |-> "obj", v |-> f]
EmptyDict == JObj(<< >>)

\* isinstance(x, str), isinstance(x, dict), isinstance(x, list)
IsStr(j) == j.t = "str"
IsDict(j) == j.t = "obj"
IsList(j) == j.t = "list"
\* isinstance(x, int): bool is a subclass of int
IsInt(j) == j.t \in {"int", "bool"}
\* the number an int or a bool compares as
IntOf(j) == IF j.t = "bool" THEN (IF j.v THEN 1 ELSE 0) ELSE j.v

\* key in d
HasKey(d, key) == key \in DOMAIN d.v
\* d.get(key)
Get(d, key) == IF HasKey(d, key) THEN d.v[key] ELSE JNull

\* bool(x)
Truthy(j) ==
    CASE j.t = "null" -> FALSE
      [] j.t = "bool" -> j.v
      [] j.t = "int" -> j.v # 0
      [] j.t = "float" -> j.v[1] # 0
      [] j.t = "str" -> Len(j.v) > 0
      [] j.t = "list" -> Len(j.v) > 0
      [] j.t = "obj" -> DOMAIN j.v # {}

\* x == s for a str s
EqStr(j, s) == IsStr(j) /\ j.v = s


(***************************************************************************)
(* Paths: a path below PACKAGES_DIR is the sequence of its parts            *)
(***************************************************************************)

\* s < u for two str: code point by code point, a proper prefix first
RECURSIVE StrLess(_, _)
StrLess(s, u) ==
    IF Len(u) = 0 THEN FALSE
    ELSE IF Len(s) = 0 THEN TRUE
    ELSE IF Ord(s[1]) < Ord(u[1]) THEN TRUE
    ELSE IF Ord(u[1]) < Ord(s[1]) THEN FALSE
    ELSE StrLess(Tail(s), Tail(u))

\* Path.__lt__: the parts compare as lists of str
RECURSIVE PathLess(_, _)
PathLess(x, y) ==
    IF Len(y) = 0 THEN FALSE
    ELSE IF Len(x) = 0 THEN TRUE
    ELSE IF StrLess(x[1], y[1]) THEN TRUE
    ELSE IF StrLess(y[1], x[1]) THEN FALSE
    ELSE PathLess(Tail(x), Tail(y))

RECURSIVE SetToSeq(_)
SetToSeq(S) ==
    IF S = {} THEN << >>
    ELSE LET x == CHOOSE y \in S : TRUE IN << x >> \o SetToSeq(S \ {x})

\* sorted(PACKAGES_DIR.rglob("*.json")), line 168
SortedPaths(S) == SortSeq(SetToSeq(S), PathLess)

\* the last index of c in s, 0 when there is none
RFind(s, c) ==
    IF \E i \in 1..Len(s) : s[i] = c
    THEN CHOOSE i \in 1..Len(s) :
             s[i] = c /\ \A k \in (i + 1)..Len(s) : s[k] # c
    ELSE 0

\* PurePath.stem: the final part without its last suffix
Stem(path) ==
    LET name == path[Len(path)]
        i == RFind(name, ".")
    IN  IF 1 < i /\ i < Len(name) THEN SubSeq(name, 1, i - 1) ELSE name

(***************************************************************************)
(* The diagnostics: one definition per call of fail                        *)
(***************************************************************************)

NoPkg == << >>
NoIdx == -1
PathArg(path) == [t |-> "path", v |-> path]

Message(rule, pkg, idx, arg) ==
    [rule |-> rule, pkg |-> pkg, idx |-> idx, arg |-> arg]

\* main
MsgNoPackagesDir == Message("packages directory not found", NoPkg, NoIdx, JNull)
MsgNoPackageFiles == Message("no package files found", NoPkg, NoIdx, JNull)
MsgInvalidFilename(package_path) ==
    Message("invalid package filename", NoPkg, NoIdx, PathArg(package_path))
MsgDuplicatePackage(package_name) ==
    Message("duplicate package detected by filename", package_name, NoIdx, JNull)

\* validate_package_file
MsgInvalidJson(package_name) ==
    Message("invalid JSON", package_name, NoIdx, JNull)
MsgRootNotObject(package_name) ==
    Message("root must be a JSON object", package_name, NoIdx, JNull)
MsgMissing(package_name, key) ==
    Message("missing", package_name, NoIdx, JStr(key))
MsgNameMismatch(package_name, name) ==
    Message("name field does not match filename", package_name, NoIdx, name)
MsgSchemaVersion(package_name) ==
    Message("schema-version must be >= 1", package_name, NoIdx, JNull)
MsgCreatedAt(package_name) ==
    Message("createdAt must be YYYY-MM-DD", package_name, NoIdx, JNull)
MsgRepositoryNotString(package_name) ==
    Message("repository must be a string", package_name, NoIdx, JNull)
MsgRepositoryUrl(package_name) ==
    Message("repository must be a GitHub URL", package_name, NoIdx, JNull)
MsgReleasesEmpty(package_name) ==
    Message("releases must be a non-empty array", package_name, NoIdx, JNull)
MsgReleaseNotObject(package_name, idx) ==
    Message("release must be an object", package_name, idx, JNull)
MsgLookupHttpError(package_name, code, owner_repo) ==
    Message("GitHub repo lookup failed (code)", package_name, NoIdx,
            JList(<< JInt(code), JStr(owner_repo[1]), JStr(owner_repo[2]) >>))
MsgLookupFailed(package_name, err) ==
    Message("GitHub repo lookup failed", package_name, NoIdx, JStr(err))
Unknown == << "u", "n", "k", "n", "o", "w", "n" >>
MsgLicense(package_name, spdx_id) ==
    Message("license must be MIT", package_name, NoIdx,
            IF Truthy(spdx_id) THEN spdx_id ELSE JStr(Unknown))

\* validate_release
\* the message of line 54 without the release index
MsgReleaseMissing_no_index(package_name, rel_idx, key) ==
    Message("release missing", package_name, NoIdx, JStr(key))
MsgReleaseMissing(package_name, rel_idx, key) ==
    Message("release missing", package_name, rel_idx, JStr(key))
MsgVersion(package_name, rel_idx) ==
    Message("version must be semver", package_name, rel_idx, JNull)
MsgDuplicateVersion(package_name, rel_idx, version) ==
    Message("duplicate release version", package_name, NoIdx, version)
MsgReleasedAt(package_name, rel_idx) ==
    Message("releasedAt must be YYYY-MM-DD", package_name, rel_idx, JNull)
MsgCompilerDropNotObject(package_name, rel_idx) ==
    Message("compiler-drop must be an object", package_name, rel_idx, JNull)
MsgCompilerDropMin(package_name, rel_idx) ==
    Message("compiler-drop.min must be >= 1", package_name, rel_idx, JNull)
MsgCompilerDropTestedOn(package_name, rel_idx) ==
    Message("compiler-drop.tested-on must be an integer >= 1",
            package_name, rel_idx, JNull)
MsgCompilerDropRange(package_name, rel_idx) ==
    Message("compiler-drop.tested-on must be >= min", package_name, rel_idx, JNull)
MsgSourceNotObject(package_name, rel_idx) ==
    Message("source must be an object", package_name, rel_idx, JNull)
MsgCommit(package_name, rel_idx) ==
    Message("source.commit must be a 40-char hex string",
            package_name, rel_idx, JNull)
MsgSha256(package_name, rel_idx) ==
    Message("source.sha256 must be a 64-char hex string",
            package_name, rel_idx, JNull)

\* line 183
MsgValid(count, mode) ==
    Message("Registry is valid", NoPkg, NoIdx, JList(<< JInt(count), JStr(mode) >>))


(***************************************************************************)
(* The inputs: the files found below PACKAGES_DIR, what reading one gives,  *)
(* and what the hosting API answers                                        *)
(***************************************************************************)

DotJson == << ".", "j", "s", "o", "n" >>
Abcd == << "a", "b", "c", "d" >>
Xy == << "x", "y" >>
P == << "p" >>
Q == << "q" >>

\* packages/<dir>/<stem>.json, or packages/<stem>.json for an empty dir
PathOf(dir, stem) == (IF Len(dir) = 0 THEN << >> ELSE << dir >>) \o << stem \o DotJson >>

\* p/abcd.json and q/abcd.json share a base name; Ab.json and q/a.json break
\* the name format; the stem of q/xy<newline>.json ends in a newline.
PathUniverse ==
    { PathOf(P, Abcd), PathOf(Q, Abcd), PathOf(P, Xy),
      PathOf(<< >>, << "A", "b" >>), PathOf(Q, << "a" >>),
      PathOf(Q, << "x", "y", "\n" >>) }

MaxFiles == 2

Date1 == << "2", "0", "2", "4", "-", "0", "1", "-", "0", "1" >>
UrlOR == HttpsGithubCom \o << "o", "/", "r" >>
V100 == << "1", ".", "0", ".", "0" >>
V200 == << "2", ".", "0", ".", "0" >>
CommitA == Repeat("a", CommitLen)
Sha256B == Repeat("b", Sha256Len)

CompilerDrop(min, tested_on) == JObj(("min" :> min) @@ ("tested-on" :> tested_on))
Source(commit, sha256) == JObj(("commit" :> commit) @@ ("sha256" :> sha256))
Release(version, releasedAt, compiler_drop, source) ==
    JObj(("version" :> version) @@ ("releasedAt" :> releasedAt)
         @@ ("compiler-drop" :> compiler_drop) @@ ("source" :> source))
Descriptor(name, schema_version, repository, createdAt, releases) ==
    JObj(("name" :> name) @@ ("schema-version" :> schema_version)
         @@ ("repository" :> repository) @@ ("createdAt" :> createdAt)
         @@ ("releases" :> releases))

Without(d, key) == JObj([k \in (DOMAIN d.v) \ {key} |-> d.v[k]])
With(d, key, val) == JObj((key :> val) @@ d.v)

GoodCompilerDrop == CompilerDrop(JInt(1), JInt(1))
GoodSource == Source(JStr(CommitA), JStr(Sha256B))
GoodRelease == Release(JStr(V100), JStr(Date1), GoodCompilerDrop, GoodSource)
ReleaseOf(version) == With(GoodRelease, "version", JStr(version))
GoodDescriptor(name) ==
    Descriptor(JStr(name), JInt(1), JStr(UrlOR), JStr(Date1), JList(<< GoodRelease >>))
WithRelease(name, release) ==
    With(GoodDescriptor(name), "releases", JList(<< release >>))
WithReleases(name, releases) ==
    With(GoodDescriptor(name), "releases", JList(releases))

\* one value of every JSON type, and the integers around 1
JsonValues ==
    << JNull, JBool(TRUE), JInt(0), JInt(1), JInt(2), JFloat(3, 2),
       JStr(<< "1" >>), JList(<< >>), EmptyDict >>

\* descriptors that differ from the good one in one top-level field
TopLevelVariants(name) ==
    << GoodDescriptor(name),
       EmptyDict,
       Without(GoodDescriptor(name), "name"),
       Without(GoodDescriptor(name), "schema-version"),
       Without(GoodDescriptor(name), "repository"),
       Without(GoodDescriptor(name), "releases"),
       Without(GoodDescriptor(name), "createdAt"),
       Without(Without(GoodDescriptor(name), "createdAt"), "schema-version"),
       With(GoodDescriptor(name), "name", JStr(name \o << "2" >>)),
       With(GoodDescriptor(name), "name", JInt(1)),
       With(GoodDescriptor(name), "schema-version", JInt(0)),
       With(GoodDescriptor(name), "schema-version", JInt(2)),
       With(GoodDescriptor(name), "schema-version", JBool(TRUE)),
       With(GoodDescriptor(name), "schema-version", JStr(<< "1" >>)),
       With(GoodDescriptor(name), "schema-version", JFloat(3, 2)),
       With(GoodDescriptor(name), "createdAt", JStr(<< "2", "0", "2", "4", "-", "1", "-", "1" >>)),
       With(GoodDescriptor(name), "createdAt", JInt(2024)),
       With(GoodDescriptor(name), "createdAt", JStr(Date1 \o << "\n" >>)),
       With(GoodDescriptor(name), "createdAt",
            JStr(<< "2", "0", "2", "U+0663", "-", "1", "3", "-", "9", "9" >>)),
       With(GoodDescriptor(name), "repository", JNull),
       With(GoodDescriptor(name), "repository", JStr(UrlOR \o << "/", "x" >>)),
       With(GoodDescriptor(name), "repository",
            JStr(<< "h", "t", "t", "p", ":", "/", "/" >> \o SubSeq(UrlOR, 9, Len(UrlOR)))),
       With(GoodDescriptor(name), "repository", JStr(HttpsGithubCom \o << "o" >>)),
       With(GoodDescriptor(name), "repository", JStr(UrlOR \o DotGit)),
       With(GoodDescriptor(name), "repository", JStr(UrlOR \o << "/" >>)),
       With(GoodDescriptor(name), "repository", JStr(UrlOR \o << "\n" >>)),
       With(GoodDescriptor(name), "releases", JList(<< >>)),
       With(GoodDescriptor(name), "releases", EmptyDict),
       With(GoodDescriptor(name), "releases", JList(<< JInt(1) >>)),
       With(GoodDescriptor(name), "releases", JList(<< GoodRelease, JNull >>)) >>

\* descriptors whose one release differs from the good one in one field
ReleaseVariants(name) ==
    << WithRelease(name, EmptyDict),
       WithRelease(name, Without(GoodRelease, "version")),
       WithRelease(name, Without(GoodRelease, "compiler-drop")),
       WithRelease(name, Without(GoodRelease, "releasedAt")),
       WithRelease(name, Without(GoodRelease, "source")),
       WithRelease(name, ReleaseOf(<< "1", ".", "0" >>)),
       WithRelease(name, ReleaseOf(V100 \o << "-" >>)),
       WithRelease(name, ReleaseOf(V100 \o << "-", "r", "c", ".", "1" >>)),
       WithRelease(name, With(GoodRelease, "version", JInt(1))),
       WithRelease(name, With(GoodRelease, "releasedAt", JStr(<< "x" >>))),
       WithRelease(name, With(GoodRelease, "releasedAt", JNull)),
       WithRelease(name, With(GoodRelease, "compiler-drop", JList(<< >>))),
       WithRelease(name, With(GoodRelease, "compiler-drop", EmptyDict)),
       WithRelease(name, With(GoodRelease, "source", JNull)),
       WithRelease(name, With(GoodRelease, "source", EmptyDict)),
       WithRelease(name, With(GoodRelease, "source",
                              Source(JStr(Repeat("a", CommitLen - 1)), JStr(Sha256B)))),
       WithRelease(name, With(GoodRelease, "source",
                              Source(JStr(Repeat("g", CommitLen)), JStr(Sha256B)))),
       WithRelease(name, With(GoodRelease, "source",
                              Source(JStr(Repeat("A", CommitLen)), JStr(Sha256B)))),
       WithRelease(name, With(GoodRelease, "source",
                              Source(JStr(Sha256B), JStr(CommitA)))),
       WithRelease(name, With(GoodRelease, "source",
                              Source(JStr(CommitA), JStr(Repeat("b", Sha256Len + 1))))),
       WithRelease(name, With(GoodRelease, "source", Source(JStr(CommitA), JInt(0)))) >>

\* descriptors with several releases
ManyReleaseVariants(name) ==
    << WithReleases(name, << GoodRelease, GoodRelease >>),
       WithReleases(name, << ReleaseOf(V100), ReleaseOf(V200) >>),
       WithReleases(name, << ReleaseOf(V100), ReleaseOf(V200), ReleaseOf(V100) >>),
       WithReleases(name, << ReleaseOf(V100), ReleaseOf(V100 \o << "\n" >>) >>),
       WithReleases(name, << ReleaseOf(V100), ReleaseOf(<< "0" >> \o V100) >>),
       WithReleases(name, << With(GoodRelease, "releasedAt", JNull), GoodRelease >>),
       WithReleases(name, << GoodRelease, Without(GoodRelease, "source") >>),
       WithReleases(name, << ReleaseOf(V200), With(ReleaseOf(V200), "releasedAt", JNull) >>) >>

\* every pair of JSON values as compiler-drop.min and .tested-on
CompilerDropVariants(name) ==
    LET count == Len(JsonValues)
    IN  [ n \in 1..(count * count) |->
            WithRelease(name,
                With(GoodRelease, "compiler-drop",
                     CompilerDrop(JsonValues[((n - 1) \div count) + 1],
                                  JsonValues[((n - 1) % count) + 1]))) ]

\* Descriptors right in their first k fields, in the order the checks read
\* them, and wrong in every later one.
WrongRelease(k) ==
    Release(IF k >= 6 THEN JStr(V100) ELSE JStr(<< "v" >>),
            IF k >= 7 THEN JStr(Date1) ELSE JNull,
            IF k < 8 THEN JNull
            ELSE CompilerDrop(IF k >= 9 THEN JInt(2) ELSE JInt(0),
                              IF k >= 11 THEN JInt(2)
                              ELSE IF k >= 10 THEN JInt(1) ELSE JInt(0)),
            IF k < 12 THEN JNull
            ELSE Source(IF k >= 13 THEN JStr(CommitA) ELSE JNull,
                        IF k >= 14 THEN JStr(Sha256B) ELSE JNull))

WrongFrom(name, k) ==
    Descriptor(IF k >= 1 THEN JStr(name) ELSE JNull,
               IF k >= 2 THEN JInt(1) ELSE JInt(0),
               IF k >= 4 THEN JStr(UrlOR) ELSE IF k >= 3 THEN JStr(<< "x" >>) ELSE JNull,
               IF k >= 3 THEN JStr(Date1) ELSE JNull,
               IF k >= 5 THEN JList(<< WrongRelease(k) >>) ELSE JList(<< >>))

WrongFromVariants(name) == [ k \in 1..14 |-> WrongFrom(name, k - 1) ]

\* the good descriptor with its keys in camel case: schemaVersion,
\* compilerDrop, testedOn
CamelCaseDescriptor(name) ==
    JObj(("name" :> JStr(name)) @@ ("schemaVersion" :> JInt(1))
         @@ ("repository" :> JStr(UrlOR)) @@ ("createdAt" :> JStr(Date1))
         @@ ("releases" :> JList(<<
                JObj(("version" :> JStr(V100)) @@ ("releasedAt" :> JStr(Date1))
                     @@ ("compilerDrop" :> JObj(("min" :> JInt(1)) @@ ("testedOn" :> JInt(1))))
                     @@ ("source" :> GoodSource)) >>)))

JsonRoots(name) ==
    TopLevelVariants(name) \o ReleaseVariants(name) \o ManyReleaseVariants(name)
        \o CompilerDropVariants(name) \o WrongFromVariants(name)
        \o << JList(<< GoodDescriptor(name) >>), JNull, JStr(name),
              CamelCaseDescriptor(name) >>

\* What package_path.read_text and json.loads make of a file: bytes that are
\* not UTF-8, text that is not JSON, or a parsed value.
FileContents(name) ==
    LET roots == JsonRoots(name)
    IN  << [k |-> "undecodable"], [k |-> "malformed"] >>
            \o [ n \in 1..Len(roots) |-> [k |-> "json", v |-> roots[n]] ]

\* What the lookup of line 149 can end in: a decoded body, an HTTPError, or
\* any other exception raised inside http_json.
Mit == << "M", "I", "T" >>
Apache20 == << "A", "p", "a", "c", "h", "e", "-", "2", ".", "0" >>
License(spdx_id) == JObj("license" :> JObj("spdx_id" :> spdx_id))

LookupOutcomes ==
    << [k |-> "body", v |-> License(JStr(Mit))],
       [k |-> "body", v |-> License(JStr(Apache20))],
       [k |-> "body", v |-> License(JStr(<< "m", "i", "t" >>))],
       [k |-> "body", v |-> License(JStr(Mit \o << "\n" >>))],
       [k |-> "body", v |-> License(JStr(<< >>))],
       [k |-> "body", v |-> License(JNull)],
       [k |-> "body", v |-> JObj("license" :> JNull)],
       [k |-> "body", v |-> JObj("license" :> EmptyDict)],
       [k |-> "body", v |-> EmptyDict],
       [k |-> "body", v |-> JObj("license" :> JStr(Mit))],
       [k |-> "body", v |-> JList(<< >>)],
       [k |-> "body", v |-> JNull],
       [k |-> "HTTPError", code |-> 404],
       [k |-> "HTTPError", code |-> 403],
       [k |-> "Exception", err |-> << "t", "i", "m", "e", "d", " ", "o", "u", "t" >>],
       [k |-> "Exception", err |-> << "J", "S", "O", "N" >>] >>

\* os.environ.get("GITHUB_TOKEN"): unset, or set
Tokens == << JNull, JStr(<< "t", "o", "k" >>) >>

(***************************************************************************)
(* The state                                                               *)
(***************************************************************************)

VARIABLES
    offline,        \* args.offline
    token_value,    \* line 163
    dir_exists,     \* PACKAGES_DIR.exists()
    found,          \* the *.json files below PACKAGES_DIR
    pc,             \* the check the run is at
    package_files,  \* line 168
    fi,             \* the place of package_path in package_files, from 1
    seen_names,     \* line 172
    package_name,   \* lines 174 and 97
    data,           \* line 100
    owner,          \* line 130
    repo,           \* lines 130-132
    rel_idx,        \* idx of line 139
    seen_versions,  \* line 138
    repo_meta,      \* line 149
    output,         \* the lines printed
    status,         \* "running", or how the process ended
    exit_code,      \* the exit status, -1 while running
    uncaught,       \* the exception that ended the process, if one did
    requests,       \* the requests sent to the hosting API
    reads           \* the files read

env == << offline, token_value, dir_exists, found >>
io == << output, status, exit_code, uncaught >>
main_locals == << package_files, fi, seen_names, package_name >>
effects == << requests, reads >>
vars == << offline, token_value, dir_exists, found, pc, package_files, fi,
           seen_names, package_name, data, owner, repo, rel_idx, seen_versions,
           repo_meta, output, status, exit_code, uncaught, requests, reads >>

\* a local that is not bound
Unbound == [t |-> "unbound"]
NoException == "none"

Init ==
    /\ offline \in BOOLEAN
    /\ token_value \in Range(Tokens)
    /\ dir_exists \in BOOLEAN
    /\ found \in {S \in SUBSET PathUniverse : Cardinality(S) <= MaxFiles}
    /\ dir_exists = FALSE => found = {}
    /\ pc = "dir_exists"
    /\ package_files = << >>
    /\ fi = 0
    /\ seen_names = {}
    /\ package_name = << >>
    /\ data = Unbound
    /\ owner = Unbound
    /\ repo = Unbound
    /\ rel_idx = 0
    /\ seen_versions = {}
    /\ repo_meta = Unbound
    /\ output = << >>
    /\ status = "running"
    /\ exit_code = -1
    /\ uncaught = NoException
    /\ requests = << >>
    /\ reads = << >>

Running == status = "running"

\* fail without sys.exit: the message is printed and the run goes on
fail_without_exit(message) ==
    /\ output' = Append(output, message)
    /\ UNCHANGED << status, exit_code, uncaught >>

\* fail, lines 22-24: print the message and exit with status 1
fail(message) ==
    /\ output' = Append(output, message)
    /\ status' = "Rejected"
    /\ exit_code' = 1
    /\ uncaught' = uncaught

\* an exception nothing catches: a traceback on stderr and exit status 1
Raise(exception) ==
    /\ output' = output
    /\ status' = "Crashed"
    /\ exit_code' = 1
    /\ uncaught' = exception


(***************************************************************************)
(* The order of the checks                                                 *)
(***************************************************************************)

\* createdAt checked before schema-version
PackageSteps_createdAt_first ==
    << "read", "root", "required", "name", "createdAt", "schema-version",
       "repository_str", "repository_url", "releases" >>

\* validate_package_file, lines 99-136, one label per check
PackageSteps ==
    << "read", "root", "required", "name", "schema-version", "createdAt",
       "repository_str", "repository_url", "releases" >>

\* lines 140-141 and validate_release, lines 51-92, one label per check
ReleaseSteps ==
    << "release", "release_required", "version", "seen_version", "releasedAt",
       "compiler-drop", "min", "tested-on", "range", "source", "commit",
       "sha256" >>

IndexOf(seq, x) == CHOOSE i \in 1..Len(seq) : seq[i] = x
InSeq(seq, x) == \E i \in 1..Len(seq) : seq[i] = x

\* the releases list and the release the loop of line 139 is at
Releases == Get(data, "releases")
CurrentRelease == Releases.v[rel_idx + 1]

\* Where a check that passes hands over to: the next check of the package,
\* the first check of the first release, the next check of the release, the
\* first check of the next release, or line 144.
Advance(label) ==
    IF InSeq(PackageSteps, label)
    THEN IF IndexOf(PackageSteps, label) < Len(PackageSteps)
         THEN [pc |-> PackageSteps[IndexOf(PackageSteps, label) + 1], rel_idx |-> rel_idx]
         ELSE [pc |-> ReleaseSteps[1], rel_idx |-> 0]
    ELSE IF IndexOf(ReleaseSteps, label) < Len(ReleaseSteps)
         THEN [pc |-> ReleaseSteps[IndexOf(ReleaseSteps, label) + 1], rel_idx |-> rel_idx]
         ELSE IF rel_idx + 1 < Len(Releases.v)
              THEN [pc |-> ReleaseSteps[1], rel_idx |-> rel_idx + 1]
              ELSE [pc |-> "offline", rel_idx |-> rel_idx]

Pass(label) ==
    /\ pc' = Advance(label).pc
    /\ rel_idx' = Advance(label).rel_idx

\* One check: fail with the message, or go on to the next check.
Check(label, bad, message) ==
    /\ Running
    /\ pc = label
    /\ IF bad THEN fail(message) /\ UNCHANGED << pc, rel_idx >>
       ELSE Pass(label) /\ UNCHANGED io

\* the for statement of line 173
LoopNext ==
    /\ fi' = fi + 1
    /\ pc' = IF fi + 1 <= Len(package_files') THEN "filename" ELSE "summary"

(***************************************************************************)
(* main, lines 161-183                                                     *)
(***************************************************************************)

\* lines 165-166
CheckPackagesDir ==
    /\ Running
    /\ pc = "dir_exists"
    /\ IF ~dir_exists THEN fail(MsgNoPackagesDir) /\ UNCHANGED pc
       ELSE pc' = "discover" /\ UNCHANGED io
    /\ UNCHANGED << env, main_locals, data, owner, repo, rel_idx, seen_versions,
                    repo_meta, effects >>

\* lines 168-170
Discover ==
    /\ Running
    /\ pc = "discover"
    /\ package_files' = SortedPaths(found)
    /\ IF Len(package_files') = 0
       THEN fail(MsgNoPackageFiles) /\ UNCHANGED << pc, fi >>
       ELSE LoopNext /\ UNCHANGED io
    /\ UNCHANGED << env, seen_names, package_name, data, owner, repo, rel_idx,
                    seen_versions, repo_meta, effects >>

\* lines 174-176
CheckFilename ==
    /\ Running
    /\ pc = "filename"
    /\ package_name' = Stem(package_files[fi])
    /\ IF ~NAME_RE(package_name')
       THEN fail(MsgInvalidFilename(package_files[fi])) /\ UNCHANGED pc
       ELSE pc' = "seen_name" /\ UNCHANGED io
    /\ UNCHANGED << env, package_files, fi, seen_names, data, owner, repo,
                    rel_idx, seen_versions, repo_meta, effects >>

\* lines 177-179 without seen_names.add
CheckSeenName_no_add ==
    /\ Running
    /\ pc = "seen_name"
    /\ IF package_name \in seen_names
       THEN fail(MsgDuplicatePackage(package_name)) /\ UNCHANGED pc
       ELSE pc' = PackageSteps[1] /\ UNCHANGED io
    /\ UNCHANGED << env, package_files, fi, seen_names, package_name, data, owner,
                    repo, rel_idx, seen_versions, repo_meta, effects >>

\* lines 177-179
CheckSeenName ==
    /\ Running
    /\ pc = "seen_name"
    /\ IF package_name \in seen_names
       THEN fail(MsgDuplicatePackage(package_name)) /\ UNCHANGED << pc, seen_names >>
       ELSE /\ seen_names' = seen_names \cup {package_name}
            /\ pc' = PackageSteps[1]
            /\ UNCHANGED io
    /\ UNCHANGED << env, package_files, fi, package_name, data, owner, repo,
                    rel_idx, seen_versions, repo_meta, effects >>

\* lines 182-183
Summary ==
    /\ Running
    /\ pc = "summary"
    /\ output' = Append(output,
                        MsgValid(Len(package_files),
                                 IF offline THEN "offline" ELSE "online"))
    /\ status' = "AllValid"
    /\ exit_code' = 0
    /\ UNCHANGED << env, pc, main_locals, data, owner, repo, rel_idx,
                    seen_versions, repo_meta, uncaught, effects >>


(***************************************************************************)
(* validate_package_file, lines 95-158                                     *)
(***************************************************************************)

\* a check that binds nothing
Step(label, bad, message) ==
    /\ Check(label, bad, message)
    /\ UNCHANGED << env, main_locals, data, owner, repo, seen_versions,
                    repo_meta, effects >>

\* the first of the keys that d lacks
Lacks(d, keys) == \E i \in 1..Len(keys) : ~HasKey(d, keys[i])
FirstMissing(d, keys) ==
    keys[CHOOSE i \in 1..Len(keys) :
             ~HasKey(d, keys[i]) /\ \A k \in 1..(i - 1) : HasKey(d, keys[k])]

\* line 107
RequiredTop == << "name", "schema-version", "repository", "releases", "createdAt" >>
\* line 51
RequiredRelease == << "version", "compiler-drop", "releasedAt", "source" >>

\* lines 99-102: read_text raises UnicodeDecodeError, which is no
\* JSONDecodeError and is not caught
ReadFile ==
    /\ Running
    /\ pc = "read"
    /\ reads' = Append(reads, package_files[fi])
    /\ \E content \in Range(FileContents(package_name)) :
           CASE content.k = "undecodable" ->
                    /\ Raise("UnicodeDecodeError")
                    /\ UNCHANGED << pc, rel_idx, data >>
             [] content.k = "malformed" ->
                    /\ fail(MsgInvalidJson(package_name))
                    /\ UNCHANGED << pc, rel_idx, data >>
             [] content.k = "json" ->
                    /\ data' = content.v
                    /\ Pass("read")
                    /\ UNCHANGED io
    /\ UNCHANGED << env, main_locals, owner, repo, seen_versions, repo_meta,
                    requests >>

\* lines 104-105
CheckRoot == Step("root", ~IsDict(data), MsgRootNotObject(package_name))

\* lines 107-110
CheckRequired ==
    Step("required", Lacks(data, RequiredTop),
         MsgMissing(package_name, FirstMissing(data, RequiredTop)))

\* lines 113-114
CheckName ==
    Step("name", ~EqStr(data.v["name"], package_name),
         MsgNameMismatch(package_name, data.v["name"]))

\* lines 116-118
CheckSchemaVersion ==
    LET schema_version == Get(data, "schema-version")
    IN  Step("schema-version",
             ~IsInt(schema_version) \/ IntOf(schema_version) < 1,
             MsgSchemaVersion(package_name))

\* lines 120-122
CheckCreatedAt ==
    LET created_at == Get(data, "createdAt")
    IN  Step("createdAt", ~IsStr(created_at) \/ ~DATE_RE(created_at.v),
             MsgCreatedAt(package_name))

\* lines 124-126
CheckRepositoryStr ==
    Step("repository_str", ~IsStr(data.v["repository"]),
         MsgRepositoryNotString(package_name))

\* lines 127-132
CheckRepositoryUrl ==
    /\ pc = "repository_url"
    /\ LET match == GITHUB_REPO_RE(data.v["repository"].v)
       IN  /\ Check("repository_url", ~match.matched, MsgRepositoryUrl(package_name))
           /\ IF match.matched
              THEN owner' = match.group1 /\ repo' = StripDotGit(match.group2)
              ELSE UNCHANGED << owner, repo >>
    /\ UNCHANGED << env, main_locals, data, seen_versions, repo_meta, effects >>

\* lines 134-138
CheckReleases ==
    /\ pc = "releases"
    /\ LET bad == ~IsList(Releases) \/ Len(Releases.v) = 0
       IN  /\ Check("releases", bad, MsgReleasesEmpty(package_name))
           /\ IF bad THEN UNCHANGED seen_versions ELSE seen_versions' = {}
    /\ UNCHANGED << env, main_locals, data, owner, repo, repo_meta, effects >>

\* lines 140-141
CheckReleaseObject ==
    Step("release", ~IsDict(CurrentRelease),
         MsgReleaseNotObject(package_name, rel_idx))

\* lines 144-145 with the flag ignored: the lookup is always made
CheckOffline_always_online ==
    /\ Running
    /\ pc = "offline"
    /\ pc' = "lookup"
    /\ UNCHANGED << env, main_locals, data, owner, repo, rel_idx, seen_versions,
                    repo_meta, io, effects >>

\* lines 144-145, and the return to the loop of main
CheckOffline ==
    /\ Running
    /\ pc = "offline"
    /\ UNCHANGED package_files
    /\ IF offline THEN LoopNext ELSE pc' = "lookup" /\ UNCHANGED fi
    /\ UNCHANGED << env, seen_names, package_name, data, owner, repo, rel_idx,
                    seen_versions, repo_meta, io, effects >>

\* http_json, lines 37-46: the request as it is sent
Request(url_owner, url_repo, token) ==
    [file |-> fi, owner |-> url_owner, repo |-> url_repo,
     authorization |-> IF Truthy(token) THEN token ELSE JNull]

\* lines 148-153
Lookup ==
    /\ Running
    /\ pc = "lookup"
    /\ requests' = Append(requests, Request(owner, repo, token_value))
    /\ \E outcome \in Range(LookupOutcomes) :
               CASE outcome.k = "body" ->
                        /\ repo_meta' = outcome.v
                        /\ pc' = "license"
                        /\ UNCHANGED io
                 [] outcome.k = "HTTPError" ->
                        /\ fail(MsgLookupHttpError(package_name, outcome.code,
                                                   << owner, repo >>))
                        /\ UNCHANGED << pc, repo_meta >>
                 [] outcome.k = "Exception" ->
                        /\ fail(MsgLookupFailed(package_name, outcome.err))
                        /\ UNCHANGED << pc, repo_meta >>
    /\ UNCHANGED << env, main_locals, data, owner, repo, rel_idx, seen_versions,
                    reads >>

\* a missing licence taken for MIT
LicenseData_default_mit ==
    IF Truthy(Get(repo_meta, "license"))
    THEN Get(repo_meta, "license") ELSE JObj("spdx_id" :> JStr(Mit))

\* repo_meta.get("license") or {}
LicenseData == IF Truthy(Get(repo_meta, "license"))
               THEN Get(repo_meta, "license") ELSE EmptyDict

\* lines 155-158: .get on a value that is no dict raises AttributeError
CheckLicense ==
    /\ Running
    /\ pc = "license"
    /\ UNCHANGED package_files
    /\ IF ~IsDict(repo_meta) \/ ~IsDict(LicenseData)
       THEN Raise("AttributeError") /\ UNCHANGED << pc, fi >>
       ELSE LET spdx_id == Get(LicenseData, "spdx_id")
            IN  IF ~EqStr(spdx_id, Mit)
                THEN fail(MsgLicense(package_name, spdx_id)) /\ UNCHANGED << pc, fi >>
                ELSE LoopNext /\ UNCHANGED io
    /\ UNCHANGED << env, seen_names, package_name, data, owner, repo, rel_idx,
                    seen_versions, repo_meta, effects >>

(***************************************************************************)
(* validate_release, lines 49-92                                           *)
(***************************************************************************)

\* lines 51-54
CheckReleaseRequired ==
    Step("release_required", Lacks(CurrentRelease, RequiredRelease),
         MsgReleaseMissing(package_name, rel_idx,
                           FirstMissing(CurrentRelease, RequiredRelease)))

\* lines 56-58
CheckVersion ==
    LET version == CurrentRelease.v["version"]
    IN  Step("version", ~IsStr(version) \/ ~VERSION_RE(version.v),
             MsgVersion(package_name, rel_idx))

\* lines 59-61 without seen_versions.add
CheckSeenVersion_no_add ==
    /\ pc = "seen_version"
    /\ LET version == CurrentRelease.v["version"]
       IN  Check("seen_version", version.v \in seen_versions,
                 MsgDuplicateVersion(package_name, rel_idx, version))
    /\ UNCHANGED << env, main_locals, data, owner, repo, seen_versions, repo_meta,
                    effects >>

\* lines 59-61
CheckSeenVersion ==
    /\ pc = "seen_version"
    /\ LET version == CurrentRelease.v["version"]
       IN  /\ Check("seen_version", version.v \in seen_versions,
                    MsgDuplicateVersion(package_name, rel_idx, version))
           /\ IF version.v \in seen_versions THEN UNCHANGED seen_versions
              ELSE seen_versions' = seen_versions \cup {version.v}
    /\ UNCHANGED << env, main_locals, data, owner, repo, repo_meta, effects >>

\* lines 63-65
CheckReleasedAt ==
    LET released_at == Get(CurrentRelease, "releasedAt")
    IN  Step("releasedAt", ~IsStr(released_at) \/ ~DATE_RE(released_at.v),
             MsgReleasedAt(package_name, rel_idx))

compiler_drop == Get(CurrentRelease, "compiler-drop")
min_drop == Get(compiler_drop, "min")
tested_on == Get(compiler_drop, "tested-on")

\* lines 67-69
CheckCompilerDrop ==
    Step("compiler-drop", ~IsDict(compiler_drop),
         MsgCompilerDropNotObject(package_name, rel_idx))

\* lines 71-75
CheckMin ==
    Step("min", ~IsInt(min_drop) \/ IntOf(min_drop) < 1,
         MsgCompilerDropMin(package_name, rel_idx))

\* lines 77-78
CheckTestedOn ==
    Step("tested-on", ~IsInt(tested_on) \/ IntOf(tested_on) < 1,
         MsgCompilerDropTestedOn(package_name, rel_idx))

\* lines 79-80 with <= for <
CheckRange_strict ==
    Step("range", IntOf(tested_on) <= IntOf(min_drop),
         MsgCompilerDropRange(package_name, rel_idx))

\* lines 79-80
CheckRange ==
    Step("range", IntOf(tested_on) < IntOf(min_drop),
         MsgCompilerDropRange(package_name, rel_idx))

source == Get(CurrentRelease, "source")

\* lines 82-84
CheckSource ==
    Step("source", ~IsDict(source), MsgSourceNotObject(package_name, rel_idx))

\* lines 86-90
CheckCommit ==
    LET commit == Get(source, "commit")
    IN  Step("commit", ~IsStr(commit) \/ ~COMMIT_RE(commit.v),
             MsgCommit(package_name, rel_idx))

\* lines 87-92
CheckSha256 ==
    LET sha256 == Get(source, "sha256")
    IN  Step("sha256", ~IsStr(sha256) \/ ~SHA256_RE(sha256.v),
             MsgSha256(package_name, rel_idx))

(***************************************************************************)
(* The run                                                                 *)
(***************************************************************************)

Next ==
    \/ CheckPackagesDir
    \/ Discover
    \/ CheckFilename
    \/ CheckSeenName
    \/ ReadFile
    \/ CheckRoot
    \/ CheckRequired
    \/ CheckName
    \/ CheckSchemaVersion
    \/ CheckCreatedAt
    \/ CheckRepositoryStr
    \/ CheckRepositoryUrl
    \/ CheckReleases
    \/ CheckReleaseObject
    \/ CheckReleaseRequired
    \/ CheckVersion
    \/ CheckSeenVersion
    \/ CheckReleasedAt
    \/ CheckCompilerDrop
    \/ CheckMin
    \/ CheckTestedOn
    \/ CheckRange
    \/ CheckSource
    \/ CheckCommit
    \/ CheckSha256
    \/ CheckOffline
    \/ Lookup
    \/ CheckLicense
    \/ Summary

Spec == Init /\ [][Next]_vars


(***************************************************************************)
(* Properties                                                              *)
(***************************************************************************)

Terminal == status # "running"
Rejected == status = "Rejected"
IsFailureLine(line) == line.rule # "Registry is valid"
Online == ~offline

\* the files of package_files before place n, as a set
FilesBefore(n) == {package_files[i] : i \in 1..(n - 1)}
StemsBefore(n) == {Stem(package_files[i]) : i \in 1..(n - 1)}

\* what the run has touched lies at or before the file it is at
NothingLaterTouched ==
    /\ Range(reads) \subseteq FilesBefore(fi + 1)
    /\ seen_names \subseteq StemsBefore(fi + 1)
    /\ \A i \in 1..Len(requests) : requests[i].file <= fi

\* C1 (fail-fast): a failure line is printed only by a run that has ended
\* rejected with a non-zero exit status, and it is then the only line; a
\* rejected run has touched no file after the one that failed; and from a
\* rejected state nothing changes any more: no check runs, no file is read,
\* no name or version is recorded, no lookup is issued.
C1_FailFast ==
    /\ [](\A i \in 1..Len(output) :
              IsFailureLine(output[i]) =>
                  Rejected /\ exit_code = 1 /\ Len(output) = 1)
    /\ [](Rejected => Len(output) = 1 /\ IsFailureLine(output[1])
                          /\ exit_code # 0 /\ NothingLaterTouched)
    /\ [][Rejected => UNCHANGED vars]_vars

\* a run rejected at the first of two files, in online mode, with the second
\* file never read, named or looked up
C1_Witness ==
    /\ Rejected
    /\ Online
    /\ Len(package_files) = 2
    /\ fi = 1
    /\ pc = "tested-on"
    /\ Len(reads) = 1

\* C2 (two terminal states), as claimed: a run that has ended is AllValid,
\* with the one success line and exit status 0 after every file was read
\* (and, online, looked up), or Rejected, with the one line fail printed and
\* a non-zero exit status.
C2_TwoTerminalStates ==
    Terminal =>
        \/ /\ status = "AllValid"
           /\ exit_code = 0
           /\ Len(output) = 1
           /\ ~IsFailureLine(output[1])
           /\ reads = package_files
           /\ Online => Len(requests) = Len(package_files)
        \/ /\ status = "Rejected"
           /\ exit_code # 0
           /\ Len(output) = 1
           /\ IsFailureLine(output[1])


\* The order of the checks on a file's contents as the specification lists
\* it: JSON root, required keys, name, schemaVersion, createdAt, repository,
\* releases; then per release: object, required keys, version format, version
\* uniqueness, releasedAt, compilerDrop (object, min, testedOn, range),
\* source (object, commit, sha256).
ListedPackageOrder ==
    << "root", "required", "name", "schema-version", "createdAt",
       "repository_str", "repository_url", "releases" >>
ListedReleaseOrder ==
    << "release", "release_required", "version", "seen_version", "releasedAt",
       "compiler-drop", "min", "tested-on", "range", "source", "commit",
       "sha256" >>

\* whether descriptor d of the file named name breaks the listed rule
BreaksPackageRule(rule, d, name) ==
    CASE rule = "root" -> ~IsDict(d)
      [] rule = "required" -> ~(Range(RequiredTop) \subseteq DOMAIN d.v)
      [] rule = "name" -> ~EqStr(d.v["name"], name)
      [] rule = "schema-version" ->
             ~(IsInt(d.v["schema-version"]) /\ IntOf(d.v["schema-version"]) >= 1)
      [] rule = "createdAt" ->
             ~(IsStr(d.v["createdAt"]) /\ DATE_RE(d.v["createdAt"].v))
      [] rule = "repository_str" -> ~IsStr(d.v["repository"])
      [] rule = "repository_url" -> ~GITHUB_REPO_RE(d.v["repository"].v).matched
      [] rule = "releases" ->
             ~(IsList(d.v["releases"]) /\ Len(d.v["releases"].v) >= 1)

\* whether release i (from 0) of the list rs breaks the listed rule
BreaksReleaseRule(rule, rs, i) ==
    LET r == rs[i + 1]
    IN  CASE rule = "release" -> ~IsDict(r)
          [] rule = "release_required" -> ~(Range(RequiredRelease) \subseteq DOMAIN r.v)
          [] rule = "version" ->
                 ~(IsStr(r.v["version"]) /\ VERSION_RE(r.v["version"].v))
          [] rule = "seen_version" ->
                 \E j \in 1..i : rs[j].v["version"] = r.v["version"]
          [] rule = "releasedAt" ->
                 ~(IsStr(r.v["releasedAt"]) /\ DATE_RE(r.v["releasedAt"].v))
          [] rule = "compiler-drop" -> ~IsDict(r.v["compiler-drop"])
          [] rule = "min" ->
                 LET m == Get(r.v["compiler-drop"], "min")
                 IN  ~(IsInt(m) /\ IntOf(m) >= 1)
          [] rule = "tested-on" ->
                 LET t == Get(r.v["compiler-drop"], "tested-on")
                 IN  ~(IsInt(t) /\ IntOf(t) >= 1)
          [] rule = "range" ->
                 ~(IntOf(Get(r.v["compiler-drop"], "tested-on"))
                       >= IntOf(Get(r.v["compiler-drop"], "min")))
          [] rule = "source" -> ~IsDict(r.v["source"])
          [] rule = "commit" ->
                 LET c == Get(r.v["source"], "commit")
                 IN  ~(IsStr(c) /\ COMMIT_RE(c.v))
          [] rule = "sha256" ->
                 LET h == Get(r.v["source"], "sha256")
                 IN  ~(IsStr(h) /\ SHA256_RE(h.v))

NoneBroken == [rule |-> "none", idx |-> NoIdx]

\* the earliest listed rule that release i or a later release breaks
RECURSIVE FirstBrokenReleaseRule(_, _, _)
FirstBrokenReleaseRule(rs, i, k) ==
    IF i >= Len(rs) THEN NoneBroken
    ELSE IF k > Len(ListedReleaseOrder) THEN FirstBrokenReleaseRule(rs, i + 1, 1)
    ELSE IF BreaksReleaseRule(ListedReleaseOrder[k], rs, i)
         THEN [rule |-> ListedReleaseOrder[k], idx |-> i]
    ELSE FirstBrokenReleaseRule(rs, i, k + 1)

\* the earliest listed rule that descriptor d breaks
RECURSIVE FirstBrokenRule(_, _, _)
FirstBrokenRule(d, name, k) ==
    IF k > Len(ListedPackageOrder)
    THEN FirstBrokenReleaseRule(d.v["releases"].v, 0, 1)
    ELSE IF BreaksPackageRule(ListedPackageOrder[k], d, name)
         THEN [rule |-> ListedPackageOrder[k], idx |-> NoIdx]
    ELSE FirstBrokenRule(d, name, k + 1)

EarliestBroken == FirstBrokenRule(data, package_name, 1)

SortedByPath(files) ==
    \A i, j \in 1..Len(files) : i < j => PathLess(files[i], files[j])

AtContentCheck == InSeq(ListedPackageOrder, pc) \/ InSeq(ListedReleaseOrder, pc)
AtOnlineCheck == pc \in {"lookup", "license"}
CurrentIdx == IF InSeq(ListedReleaseOrder, pc) THEN rel_idx ELSE NoIdx
CurrentFileRead == fi >= 1 /\ fi <= Len(reads) /\ reads[fi] = package_files[fi]

RepeatPlaces == {j \in 1..Len(package_files) : Stem(package_files[j]) \in StemsBefore(j)}
HasRepeat == RepeatPlaces # {}
FirstRepeat == CHOOSE j \in RepeatPlaces : \A k \in RepeatPlaces : j <= k

\* C4 (duplicate package), as claimed: a run over a registry that holds two
\* files with the same base name ends rejected with the duplicate-package
\* reason for that name.
C4_AlwaysDuplicatePackage ==
    (status \in {"AllValid", "Rejected"} /\ HasRepeat) =>
        /\ Rejected
        /\ output = << MsgDuplicatePackage(Stem(package_files[FirstRepeat])) >>

\* C4, amended: such a run is never accepted and never gets past the first
\* file that repeats a base name; that file is never read, whatever its name
\* field; and a run that gets to it is rejected with the duplicate-package
\* reason for its name. A run in which an earlier file fails one of its own
\* checks is rejected there, with that reason.
C4_DuplicatePackage ==
    HasRepeat =>
        /\ status # "AllValid"
        /\ fi <= FirstRepeat
        /\ package_files[FirstRepeat] \notin Range(reads)
        /\ (fi = FirstRepeat /\ pc # "filename") =>
               pc = "seen_name" /\ package_name \in seen_names
        /\ (fi = FirstRepeat /\ Terminal) =>
               /\ Rejected
               /\ output = << MsgDuplicatePackage(Stem(package_files[FirstRepeat])) >>

\* q/abcd.json repeats the base name of p/abcd.json, which passed every
\* check, online lookup included
C4_Witness ==
    /\ Rejected
    /\ Online
    /\ fi = 2
    /\ pc = "seen_name"
    /\ output = << MsgDuplicatePackage(Abcd) >>
    /\ reads = << PathOf(P, Abcd) >>

\* the version strings of releases 0 .. n-1 of the package being validated
VersionsBefore(n) == {Releases.v[j].v["version"].v : j \in 1..n}
ReleaseStepsAfterSeenVersion ==
    {"releasedAt", "compiler-drop", "min", "tested-on", "range", "source",
     "commit", "sha256"}

C6_NetworkDiscipline ==
    /\ offline => requests = << >>
    /\ \A i \in 1..Len(requests) :
           /\ requests[i].file = i
           /\ i <= fi
           /\ requests[i].authorization = token_value
    /\ (Len(requests) >= 1 /\ Len(requests) = fi) =>
           /\ CurrentFileRead
           /\ EarliestBroken = NoneBroken
           /\ pc \in {"lookup", "license"}
    /\ pc \in {"lookup", "license"} => Online
    /\ (pc = "lookup" /\ Terminal) =>
           /\ Rejected
           /\ Len(requests) = fi
           /\ output[1].rule \in {"GitHub repo lookup failed (code)",
                                  "GitHub repo lookup failed"}
           /\ output[1].pkg = package_name
    /\ (Rejected /\ output[1].rule \in {"GitHub repo lookup failed (code)",
                                         "GitHub repo lookup failed"}) =>
           pc = "lookup"
    /\ (status = "AllValid" /\ Online) => Len(requests) = Len(package_files)
    /\ (Rejected /\ AtContentCheck) =>
           EarliestBroken = [rule |-> pc, idx |-> CurrentIdx]

\* the lookup of the second package fails, with no credential set
C6_Witness ==
    /\ Rejected
    /\ pc = "lookup"
    /\ fi = 2
    /\ Len(requests) = 2
    /\ token_value = JNull
    /\ output[1].rule = "GitHub repo lookup failed (code)"


\* A response body as the hosting API documents it: an object whose
\* "license" is absent, null, or an object whose "spdx_id" is absent, null
\* or an identifier (a string that is not empty).
IsIdentifier(j) == IsStr(j) /\ Len(j.v) > 0
DocumentedBody(body) ==
    /\ IsDict(body)
    /\ \/ Get(body, "license") = JNull
       \/ /\ IsDict(Get(body, "license"))
          /\ \/ Get(Get(body, "license"), "spdx_id") = JNull
             \/ IsIdentifier(Get(Get(body, "license"), "spdx_id"))
\* the licence identifier such a body returns, JNull when it returns none
ReturnedLicense(body) ==
    IF IsDict(Get(body, "license")) THEN Get(Get(body, "license"), "spdx_id")
    ELSE JNull

\* the lookup of the package before the one the run is at has been passed
PassedLicenseCheck ==
    /\ Online
    /\ Len(requests) >= 1
    /\ Len(requests) = fi - 1
    /\ repo_meta # Unbound

\* C7 (licence rule): after a lookup that returned a documented body, the
\* package passes exactly when the returned identifier is "MIT"; any other
\* identifier is rejected with the licence reason naming that identifier,
\* and an absent or null licence or identifier with the licence reason
\* naming "unknown".
C7_LicenseRule ==
    /\ PassedLicenseCheck => ReturnedLicense(repo_meta) = JStr(Mit)
    /\ (pc = "license" /\ Terminal /\ DocumentedBody(repo_meta)) =>
           /\ Rejected
           /\ ReturnedLicense(repo_meta) # JStr(Mit)
           /\ output[1].rule = "license must be MIT"
           /\ output[1].pkg = package_name
           /\ output[1].arg =
                  IF ReturnedLicense(repo_meta) = JNull THEN JStr(Unknown)
                  ELSE ReturnedLicense(repo_meta)
    /\ (Rejected /\ output[1].rule = "license must be MIT") =>
           pc = "license" /\ EarliestBroken = NoneBroken

\* the repository of the second package is Apache-2.0
C7_Witness ==
    /\ Rejected
    /\ fi = 2
    /\ pc = "license"
    /\ output[1].arg = JStr(Apache20)

\* what C8 claims the compiler-drop step accepts: min an integer >= 1,
\* testedOn an integer >= 1, testedOn >= min
IsJsonInteger(j) == j.t = "int"
InClaimedRange(min, tested) ==
    /\ IsJsonInteger(min)
    /\ min.v >= 1
    /\ IsJsonInteger(tested)
    /\ tested.v >= 1
    /\ tested.v >= min.v

\* C8 (compiler-drop range), as claimed: a release gets past the min,
\* tested-on and range checks if and only if min and tested-on are in the
\* claimed range.
C8_RangeRule ==
    /\ (pc = "source" /\ IsDict(compiler_drop)) =>
           InClaimedRange(min_drop, tested_on)
    /\ (Rejected /\ pc \in {"min", "tested-on", "range"}) =>
           ~InClaimedRange(min_drop, tested_on)

\* the descriptor of C9, with its keys as the claim spells them
ClaimedMinimalDescriptor ==
    JObj(("name" :> JStr(<< "a", "b", "c", "d" >>))
         @@ ("schemaVersion" :> JInt(1))
         @@ ("repository" :> JStr(HttpsGithubCom \o << "o", "/", "r" >>))
         @@ ("createdAt" :> JStr(<< "2", "0", "2", "4", "-", "0", "1", "-", "0", "1" >>))
         @@ ("releases" :> JList(<<
                JObj(("version" :> JStr(<< "1", ".", "0", ".", "0" >>))
                     @@ ("releasedAt" :> JStr(<< "2", "0", "2", "4", "-", "0", "1", "-", "0", "1" >>))
                     @@ ("compilerDrop" :>
                             JObj(("min" :> JInt(1)) @@ ("testedOn" :> JInt(1))))
                     @@ ("source" :>
                             JObj(("commit" :> JStr([i \in 1..40 |-> "a"]))
                                  @@ ("sha256" :> JStr([i \in 1..64 |-> "b"]))))) >>)))

\* the same descriptor with the keys the validator reads: schema-version,
\* compiler-drop, tested-on
HyphenatedMinimalDescriptor ==
    JObj(("name" :> JStr(<< "a", "b", "c", "d" >>))
         @@ ("schema-version" :> JInt(1))
         @@ ("repository" :> JStr(HttpsGithubCom \o << "o", "/", "r" >>))
         @@ ("createdAt" :> JStr(<< "2", "0", "2", "4", "-", "0", "1", "-", "0", "1" >>))
         @@ ("releases" :> JList(<<
                JObj(("version" :> JStr(<< "1", ".", "0", ".", "0" >>))
                     @@ ("releasedAt" :> JStr(<< "2", "0", "2", "4", "-", "0", "1", "-", "0", "1" >>))
                     @@ ("compiler-drop" :>
                             JObj(("min" :> JInt(1)) @@ ("tested-on" :> JInt(1))))
                     @@ ("source" :>
                             JObj(("commit" :> JStr([i \in 1..40 |-> "a"]))
                                  @@ ("sha256" :> JStr([i \in 1..64 |-> "b"]))))) >>)))

OnlyAbcdOffline ==
    /\ offline
    /\ \E dir \in {P, Q} : found = {PathOf(dir, << "a", "b", "c", "d" >>)}

\* a run over the one file abcd.json holding d stays free of diagnostics and
\* ends AllValid with the line for 1 package, offline
AcceptsAlone(d) ==
    (OnlyAbcdOffline /\ data = d) =>
        /\ status \in {"running", "AllValid"}
        /\ Running => output = << >> /\ ENABLED Next
        /\ Terminal => output = << MsgValid(1, "offline") >> /\ exit_code = 0

\* C9 (minimal acceptance), as claimed, with the keys schemaVersion,
\* compilerDrop and testedOn
C9_MinimalAcceptedAsClaimed == AcceptsAlone(ClaimedMinimalDescriptor)

\* C9, amended: the minimal descriptor passes offline validation when its
\* keys are spelled schema-version, compiler-drop and tested-on.
C9_MinimalAccepted == AcceptsAlone(HyphenatedMinimalDescriptor)

C9_Witness ==
    /\ OnlyAbcdOffline
    /\ data = HyphenatedMinimalDescriptor
    /\ status = "AllValid"
    /\ output = << MsgValid(1, "offline") >>

\* the file being validated is named by the diagnostic: as its package
\* name, or within the path an invalid-filename diagnostic gives
NamesPackage(line) ==
    \/ line.pkg = package_name
    \/ line.arg.t = "path" /\ Stem(line.arg.v) = package_name
FailedInFile == Rejected /\ fi >= 1
FailedInRelease == Rejected /\ InSeq(ReleaseSteps, pc)

\* C10 (attribution), as claimed: every failure raised while a file is
\* validated carries the package name, and every failure of a check on
\* release i, the duplicate-version check included, carries the index i.
C10_AttributionAsClaimed ==
    /\ FailedInFile => NamesPackage(output[1])
    /\ FailedInRelease => output[1].idx = rel_idx

\* C10, amended: every failure raised while a file is validated carries the
\* package name; every failure of a check on release i carries the index i,
\* except the duplicate-version failure, which carries the repeated version
\* string and no index; a failure of a check on no release carries no index.
C10_Attribution ==
    /\ FailedInFile => NamesPackage(output[1])
    /\ (FailedInRelease /\ pc # "seen_version") => output[1].idx = rel_idx
    /\ (FailedInRelease /\ pc = "seen_version") =>
           /\ output[1].idx = NoIdx
           /\ output[1].arg = CurrentRelease.v["version"]
    /\ (Rejected /\ ~InSeq(ReleaseSteps, pc)) => output[1].idx = NoIdx

\* the second release lacks a key, and the diagnostic says release 1
C10_Witness ==
    /\ Rejected
    /\ pc = "release_required"
    /\ rel_idx = 1
    /\ output[1] = MsgReleaseMissing(package_name, 1, "source")

============================================================================
